---------------------------- MODULE Spec2Model ----------------------------
(***************************************************************************)
(* A model of recommender.py: the age classifier, the three catalogs and   *)
(* recommend_glasses.                                                      *)
(*                                                                         *)
(* Python lists are objects: two names may denote the same list, and a     *)
(* change made through one is seen through the other.  The model keeps     *)
(* every list in a heap (reference -> contents); the catalogs and the      *)
(* GlassRecommendation fields hold references.  Text that the code only    *)
(* compares for equality (frame names, features, notes) is a TLA+ string;  *)
(* the face shape, which the code trims and lowercases, is a sequence of   *)
(* one-character strings.                                                  *)
(***************************************************************************)
EXTENDS Integers, Sequences, FiniteSets, TLC

VARIABLES
    heap,     \* list reference -> contents, for every live list object
    held,     \* the GlassRecommendation objects the caller has kept
    call,     \* the arguments of the current call: [face_shape, age]
    outcome,  \* what the current call gave: [returned, raised]
    pc,       \* "ready": the call is about to run, "done": it has ended
    edits,    \* how many times the caller has changed a list it was given
    text      \* what summary() gave, a sequence of pieces; <<>> before it ran

vars == <<heap, held, call, outcome, pc, edits, text>>

----------------------------------------------------------------------------
(* Bounds of the model. *)

\* Ages tried below 0 and above the last configured range.
MaxBeyond == 2

\* Longest run of whitespace put before and after a face shape.
MaxPad == 1

\* GlassRecommendation objects a caller keeps at once.
MaxHeld == 1

\* Changes a caller makes to the lists of the recommendations it holds.
MaxEdits == 2

\* Longest list given to the GlassRecommendation constructor.
MaxItems == 2

----------------------------------------------------------------------------
(* Results of a call: a value returned, or an exception raised. *)

NoOutcome == [returned |-> {}, raised |-> {}]

Return(v) == [returned |-> {v}, raised |-> {}]

Raise(e) == [returned |-> {}, raised |-> {e}]

\* ValueError(f"..."): the f-string's template and the values put into it.
ValueError(format, args) == [type |-> "ValueError", format |-> format, args |-> args]

TheOne(S) == CHOOSE v \in S : TRUE

----------------------------------------------------------------------------
(* Ordered dictionaries: a sequence of [key, value] entries in insertion   *)
(* order, as a Python dict keeps them.                                     *)

Keys(d) == [i \in 1..Len(d) |-> d[i].key]

HasKey(d, k) == \E i \in 1..Len(d) : d[i].key = k

Get(d, k) == d[CHOOSE i \in 1..Len(d) : d[i].key = k].value

\* x in list
InList(x, list) == \E i \in 1..Len(list) : list[i] = x

----------------------------------------------------------------------------
(* Age groups. *)

AGE_GROUPS ==
    << [key |-> "child",       value |-> [lo |-> 0,  hi |-> 12]],
       [key |-> "teen",        value |-> [lo |-> 13, hi |-> 17]],
       [key |-> "young_adult", value |-> [lo |-> 18, hi |-> 35]],
       [key |-> "adult",       value |-> [lo |-> 36, hi |-> 59]],
       [key |-> "senior",      value |-> [lo |-> 60, hi |-> 150]] >>

AgeNegativeFormat == "Age must be non-negative, got {age}"

AgeUnclassifiedFormat == "Could not classify age {age}"

\* Mutant: an age past the last range falls into the last group.
classify_unmatched_is_last(age) == Return(AGE_GROUPS[Len(AGE_GROUPS)].key)

\* The raise after the loop: no range held the age.
classify_unmatched(age) == Raise(ValueError(AgeUnclassifiedFormat, <<age>>))

\* for group, (lo, hi) in AGE_GROUPS.items(): the loop from entry i on.
RECURSIVE classify_loop(_, _)
classify_loop(age, i) ==
    IF i > Len(AGE_GROUPS)
    THEN classify_unmatched(age)
    ELSE IF AGE_GROUPS[i].value.lo <= age /\ age <= AGE_GROUPS[i].value.hi
         THEN Return(AGE_GROUPS[i].key)
         ELSE classify_loop(age, i + 1)

\* Mutant: age 0 is rejected with the negative ages.
classify_age_group_rejects_zero(age) ==
    IF age <= 0
    THEN Raise(ValueError(AgeNegativeFormat, <<age>>))
    ELSE classify_loop(age, 1)

classify_age_group(age) ==
    IF age < 0
    THEN Raise(ValueError(AgeNegativeFormat, <<age>>))
    ELSE classify_loop(age, 1)

----------------------------------------------------------------------------
(* str.strip() and str.lower() on sequences of characters.  Of the         *)
(* characters str.strip() removes, the model has the space and the tab; of *)
(* those str.lower() changes, the 26 capital letters.                      *)

Whitespace == {" ", "\t"}

UpperToLower ==
    [c \in {"A", "B", "C", "D", "E", "F", "G", "H", "I", "J", "K", "L", "M",
            "N", "O", "P", "Q", "R", "S", "T", "U", "V", "W", "X", "Y", "Z"} |->
        CASE c = "A" -> "a" [] c = "B" -> "b" [] c = "C" -> "c" [] c = "D" -> "d"
          [] c = "E" -> "e" [] c = "F" -> "f" [] c = "G" -> "g" [] c = "H" -> "h"
          [] c = "I" -> "i" [] c = "J" -> "j" [] c = "K" -> "k" [] c = "L" -> "l"
          [] c = "M" -> "m" [] c = "N" -> "n" [] c = "O" -> "o" [] c = "P" -> "p"
          [] c = "Q" -> "q" [] c = "R" -> "r" [] c = "S" -> "s" [] c = "T" -> "t"
          [] c = "U" -> "u" [] c = "V" -> "v" [] c = "W" -> "w" [] c = "X" -> "x"
          [] c = "Y" -> "y" [] c = "Z" -> "z"]

lower_char(c) == IF c \in DOMAIN UpperToLower THEN UpperToLower[c] ELSE c

lower(s) == [i \in 1..Len(s) |-> lower_char(s[i])]

RECURSIVE lstrip(_)
lstrip(s) == IF s # <<>> /\ Head(s) \in Whitespace THEN lstrip(Tail(s)) ELSE s

RECURSIVE rstrip(_)
rstrip(s) ==
    IF s # <<>> /\ s[Len(s)] \in Whitespace
    THEN rstrip(SubSeq(s, 1, Len(s) - 1))
    ELSE s

\* Mutant: only the leading whitespace is removed.
strip_leading_only(s) == lstrip(s)

strip(s) == rstrip(lstrip(s))

----------------------------------------------------------------------------
(* The catalogs, as the module body builds them. *)

_FACE_SHAPE_FRAMES ==
    << [key |-> <<"o", "v", "a", "l">>,
        value |-> <<"aviator", "wayfarer", "round", "cat-eye", "geometric">>],
       [key |-> <<"r", "o", "u", "n", "d">>,
        value |-> <<"rectangular", "square", "geometric", "browline", "wayfarer">>],
       [key |-> <<"s", "q", "u", "a", "r", "e">>,
        value |-> <<"round", "oval", "rimless", "cat-eye", "aviator">>],
       [key |-> <<"h", "e", "a", "r", "t">>,
        value |-> <<"aviator", "round", "rimless", "light-colored frames">>],
       [key |-> <<"o", "b", "l", "o", "n", "g">>,
        value |-> <<"tall frames", "decorative temples", "round", "square">>],
       [key |-> <<"d", "i", "a", "m", "o", "n", "d">>,
        value |-> <<"cat-eye", "oval", "rimless browline">>],
       [key |-> <<"t", "r", "i", "a", "n", "g", "l", "e">>,
        value |-> <<"top-heavy frames", "browline", "cat-eye", "aviator">>] >>

_AGE_GROUP_MODIFIERS ==
    << [key |-> "child",
        value |-> [prefer |-> <<"flexible frames", "small fit", "rubber nose pads",
                                "polycarbonate lenses">>,
                   avoid |-> <<"rimless", "large frames", "heavy metal frames">>,
                   fit_notes |-> "Small/petite fit; lightweight and durable materials are essential."]],
       [key |-> "teen",
        value |-> [prefer |-> <<"trendy styles", "sporty frames", "medium fit">>,
                   avoid |-> <<"very large oversized frames">>,
                   fit_notes |-> "Medium fit; style-conscious options work well."]],
       [key |-> "young_adult",
        value |-> [prefer |-> <<"fashion-forward", "bold colors", "geometric", "large fit">>,
                   avoid |-> <<>>,
                   fit_notes |-> "Standard adult fit; wide variety of styles suitable."]],
       [key |-> "adult",
        value |-> [prefer |-> <<"classic styles", "professional frames",
                                "progressive-lens ready">>,
                   avoid |-> <<>>,
                   fit_notes |-> "Standard to wide fit; consider progressive-lens compatibility."]],
       [key |-> "senior",
        value |-> [prefer |-> <<"progressive-lens ready", "lightweight frames", "wide fit",
                                "high nose bridge", "spring hinges">>,
                   avoid |-> <<"very small frames", "heavy frames">>,
                   fit_notes |-> "Wide fit with spring hinges; frames should accommodate progressive or bifocal lenses. Lightweight materials (titanium, memory metal) reduce fatigue."]] >>

_AGE_LENS_SUGGESTIONS ==
    << [key |-> "child",
        value |-> <<"polycarbonate lenses", "anti-scratch coating", "UV400 protection">>],
       [key |-> "teen",
        value |-> <<"polycarbonate lenses", "anti-reflective coating", "UV400 protection">>],
       [key |-> "young_adult",
        value |-> <<"single-vision", "anti-reflective coating", "blue-light filter">>],
       [key |-> "adult",
        value |-> <<"progressive lenses", "anti-reflective coating", "blue-light filter",
                    "UV400 protection">>],
       [key |-> "senior",
        value |-> <<"progressive or bifocal lenses", "anti-reflective coating",
                    "photochromic option", "UV400 protection",
                    "high-index lenses to reduce weight">>] >>

----------------------------------------------------------------------------
(* The heap.  A reference names a list object: the list bound at entry id  *)
(* of a catalog ("frames", "prefer", "avoid", "lens"), or the id-th list   *)
(* built by a call ("new").                                                *)

Index(d, k) == CHOOSE i \in 1..Len(d) : d[i].key = k

\* The list object a catalog binds to key k.
ListAt(tbl, d, k) == [tbl |-> tbl, id |-> Index(d, k)]

CatalogRefs ==
    {[tbl |-> "frames", id |-> i] : i \in 1..Len(_FACE_SHAPE_FRAMES)}
    \cup {[tbl |-> t, id |-> i] : t \in {"prefer", "avoid"}, i \in 1..Len(_AGE_GROUP_MODIFIERS)}
    \cup {[tbl |-> "lens", id |-> i] : i \in 1..Len(_AGE_LENS_SUGGESTIONS)}

\* The heap once the module is imported: every catalog list as written.
ModuleHeap ==
    [r \in CatalogRefs |->
        CASE r.tbl = "frames" -> _FACE_SHAPE_FRAMES[r.id].value
          [] r.tbl = "prefer" -> _AGE_GROUP_MODIFIERS[r.id].value.prefer
          [] r.tbl = "avoid"  -> _AGE_GROUP_MODIFIERS[r.id].value.avoid
          [] r.tbl = "lens"   -> _AGE_LENS_SUGGESTIONS[r.id].value]

\* A reference no live list has: the lowest free "new" id.
NewRef(h) ==
    LET used == {r.id : r \in {x \in DOMAIN h : x.tbl = "new"}}
        n == CHOOSE k \in 1..(Cardinality(used) + 1) :
                 k \notin used /\ \A m \in 1..(k - 1) : m \in used
    IN  [tbl |-> "new", id |-> n]

\* The heap with a new list object r holding list.
Alloc(h, r, list) == [x \in DOMAIN h \cup {r} |-> IF x = r THEN list ELSE h[x]]

----------------------------------------------------------------------------
(* recommend_glasses *)

UnknownShapeFormat ==
    "Unknown face shape '{face_shape}'. Supported shapes: {list(_FACE_SHAPE_FRAMES.keys())}"

\* Mutant: the base frames are returned unfiltered.
FilterFrames_keeps_all(base_frames, frames_to_avoid) == base_frames

\* [f for f in base_frames if f not in frames_to_avoid]
FilterFrames(base_frames, frames_to_avoid) ==
    SelectSeq(base_frames, LAMBDA f : ~InList(f, frames_to_avoid))

\* Mutant: the face shape is trimmed but not lowercased.
Normalize_keeps_case(face_shape) == strip(face_shape)

\* face_shape.strip().lower()
Normalize(face_shape) == lower(strip(face_shape))

\* Mutant: the avoided frames are removed from the catalog's own list, which
\* is then copied into the result.
BuildRecommendation_filters_in_place(face_shape, age, age_group, h) ==
    LET base_frames == ListAt("frames", _FACE_SHAPE_FRAMES, face_shape)
        modifiers == Get(_AGE_GROUP_MODIFIERS, age_group)
        frames_to_avoid == ListAt("avoid", _AGE_GROUP_MODIFIERS, age_group)
        kept == FilterFrames(h[base_frames], h[frames_to_avoid])
        h0 == [h EXCEPT ![base_frames] = kept]
        recommended == NewRef(h0)
        h1 == Alloc(h0, recommended, kept)
    IN  [outcome |->
            Return([face_shape |-> face_shape,
                    age |-> age,
                    age_group |-> age_group,
                    recommended_frames |-> recommended,
                    preferred_features |-> ListAt("prefer", _AGE_GROUP_MODIFIERS, age_group),
                    frames_to_avoid |-> frames_to_avoid,
                    fit_notes |-> modifiers.fit_notes,
                    lens_suggestions |-> ListAt("lens", _AGE_LENS_SUGGESTIONS, age_group)]),
         heap |-> h1]

\* The GlassRecommendation built at the end of recommend_glasses, and the
\* heap the call leaves: [outcome, heap].
BuildRecommendation(face_shape, age, age_group, h) ==
    LET base_frames == ListAt("frames", _FACE_SHAPE_FRAMES, face_shape)
        modifiers == Get(_AGE_GROUP_MODIFIERS, age_group)
        frames_to_avoid == ListAt("avoid", _AGE_GROUP_MODIFIERS, age_group)
        recommended == NewRef(h)
        h1 == Alloc(h, recommended, FilterFrames(h[base_frames], h[frames_to_avoid]))
        has_lens == HasKey(_AGE_LENS_SUGGESTIONS, age_group)
        lens == IF has_lens
                THEN ListAt("lens", _AGE_LENS_SUGGESTIONS, age_group)
                ELSE NewRef(h1)
        h2 == IF has_lens THEN h1 ELSE Alloc(h1, lens, <<>>)
    IN  [outcome |->
            Return([face_shape |-> face_shape,
                    age |-> age,
                    age_group |-> age_group,
                    recommended_frames |-> recommended,
                    preferred_features |-> ListAt("prefer", _AGE_GROUP_MODIFIERS, age_group),
                    frames_to_avoid |-> frames_to_avoid,
                    fit_notes |-> modifiers.fit_notes,
                    lens_suggestions |-> lens]),
         heap |-> h2]

\* Mutant: the age is classified before the face shape is looked up.
recommend_glasses_age_first(face_shape_arg, age, h) ==
    LET face_shape == Normalize(face_shape_arg)
        classified == classify_age_group(age)
    IN  IF classified.raised # {}
        THEN [outcome |-> classified, heap |-> h]
        ELSE IF ~HasKey(_FACE_SHAPE_FRAMES, face_shape)
             THEN [outcome |-> Raise(ValueError(UnknownShapeFormat,
                                                <<face_shape, Keys(_FACE_SHAPE_FRAMES)>>)),
                   heap |-> h]
             ELSE BuildRecommendation(face_shape, age, TheOne(classified.returned), h)

\* Mutant: the classifier's error is caught and another one raised.
recommend_glasses_rewraps(face_shape_arg, age, h) ==
    LET face_shape == Normalize(face_shape_arg) IN
    IF ~HasKey(_FACE_SHAPE_FRAMES, face_shape)
    THEN [outcome |-> Raise(ValueError(UnknownShapeFormat,
                                       <<face_shape, Keys(_FACE_SHAPE_FRAMES)>>)),
          heap |-> h]
    ELSE LET classified == classify_age_group(age) IN
         IF classified.raised # {}
         THEN [outcome |-> Raise(ValueError("Invalid age {age}", <<age>>)), heap |-> h]
         ELSE BuildRecommendation(face_shape, age, TheOne(classified.returned), h)

recommend_glasses(face_shape_arg, age, h) ==
    LET face_shape == Normalize(face_shape_arg) IN
    IF ~HasKey(_FACE_SHAPE_FRAMES, face_shape)
    THEN [outcome |-> Raise(ValueError(UnknownShapeFormat,
                                       <<face_shape, Keys(_FACE_SHAPE_FRAMES)>>)),
          heap |-> h]
    ELSE LET classified == classify_age_group(age) IN
         IF classified.raised # {}
         THEN [outcome |-> classified, heap |-> h]
         ELSE BuildRecommendation(face_shape, age, TheOne(classified.returned), h)

\* A GlassRecommendation as its fields read: each list field by its contents.
Fields(rec, h) ==
    [face_shape |-> rec.face_shape,
     age |-> rec.age,
     age_group |-> rec.age_group,
     recommended_frames |-> h[rec.recommended_frames],
     preferred_features |-> h[rec.preferred_features],
     frames_to_avoid |-> h[rec.frames_to_avoid],
     fit_notes |-> rec.fit_notes,
     lens_suggestions |-> h[rec.lens_suggestions]]

\* A call's outcome as its fields read: lists by contents.
Values(o, h) == [returned |-> {Fields(r, h) : r \in o.returned}, raised |-> o.raised]

----------------------------------------------------------------------------
(* GlassRecommendation.summary().  The text is a sequence of pieces: the   *)
(* literal parts of the f-strings, the strings and the integer put into    *)
(* them, and the "\n" and ", " that str.join puts between items.           *)

Lit(s) == [kind |-> "str", str |-> s, chars |-> <<>>, int |-> 0]

\* A face shape, which the model keeps as a sequence of characters.
Chars(c) == [kind |-> "chars", str |-> "", chars |-> c, int |-> 0]

\* An integer, as an f-string formats it.
Num(n) == [kind |-> "int", str |-> "", chars |-> <<>>, int |-> n]

\* sep.join(items), for items that are each a sequence of pieces.
RECURSIVE Join(_, _)
Join(sep, items) ==
    IF items = <<>> THEN <<>>
    ELSE IF Len(items) = 1 THEN items[1]
    ELSE items[1] \o <<Lit(sep)>> \o Join(sep, Tail(items))

\* ', '.join(list) for a list of strings.
CommaJoin(list) == Join(", ", [i \in 1..Len(list) |-> <<Lit(list[i])>>])

\* The lines summary() collects before joining them.
summary_lines(rec, h) ==
    << <<Lit("Face shape  : "), Chars(rec.face_shape)>>,
       <<Lit("Age         : "), Num(rec.age), Lit(" ("), Lit(rec.age_group), Lit(")")>>,
       <<Lit("Frames      : ")>> \o CommaJoin(h[rec.recommended_frames]),
       <<Lit("Features    : ")>> \o CommaJoin(h[rec.preferred_features]) >>
    \o (IF h[rec.frames_to_avoid] # <<>>
        THEN << <<Lit("Avoid       : ")>> \o CommaJoin(h[rec.frames_to_avoid]) >>
        ELSE <<>>)
    \o (IF h[rec.lens_suggestions] # <<>>
        THEN << <<Lit("Lenses      : ")>> \o CommaJoin(h[rec.lens_suggestions]) >>
        ELSE <<>>)
    \o << <<Lit("Fit notes   : "), Lit(rec.fit_notes)>> >>

\* Mutant: the lens line is appended before the avoid line.
summary_lenses_first(rec, h) ==
    LET lines == summary_lines(rec, h)
        both == h[rec.frames_to_avoid] # <<>> /\ h[rec.lens_suggestions] # <<>>
    IN  Join("\n", IF both
                   THEN [i \in 1..Len(lines) |->
                            IF i = 5 THEN lines[6] ELSE IF i = 6 THEN lines[5] ELSE lines[i]]
                   ELSE lines)

summary(rec, h) == Join("\n", summary_lines(rec, h))

\* The list objects a GlassRecommendation refers to.
ListFields == {"recommended_frames", "preferred_features", "frames_to_avoid",
               "lens_suggestions"}

RecRefs(rec) == {rec[f] : f \in ListFields}

----------------------------------------------------------------------------
(* The inputs tried. *)

AgeLast == AGE_GROUPS[Len(AGE_GROUPS)].value.hi

\* Every age of every range, and MaxBeyond ages on either side.
AgeInputs == (0 - MaxBeyond)..(AgeLast + MaxBeyond)

\* The first age of every range, the age before the first range and the
\* age after the last.
EdgeAges ==
    {AGE_GROUPS[i].value.lo : i \in 1..Len(AGE_GROUPS)} \cup {0 - 1, AgeLast + 1}

SupportedShapes == {_FACE_SHAPE_FRAMES[i].key : i \in 1..Len(_FACE_SHAPE_FRAMES)}

\* Strings that are not a supported shape however they are trimmed or cased.
OtherWords ==
    { <<"h", "e", "x", "a", "g", "o", "n">>,
      <<>>,
      <<"o", "v", " ", "a", "l">>,
      <<"o", "v", "a", "l", "s">>,
      <<"r", "o", "u", "n">> }

upper_char(c) ==
    IF \E u \in DOMAIN UpperToLower : UpperToLower[u] = c
    THEN CHOOSE u \in DOMAIN UpperToLower : UpperToLower[u] = c
    ELSE c

\* Every way of writing w in upper and lower case.
CaseVariants(w) ==
    {[i \in 1..Len(w) |-> IF i \in S THEN upper_char(w[i]) ELSE w[i]] :
        S \in SUBSET (1..Len(w))}

\* Every run of whitespace of at most MaxPad characters.
Pads == UNION {[1..k -> Whitespace] : k \in 0..MaxPad}

\* Every spelling of w: any case, whitespace before and after.
Spellings(w) == {l \o v \o r : l \in Pads, v \in CaseVariants(w), r \in Pads}

\* The face-shape strings of the tests and a few others, as written.
ShapeInputs ==
    SupportedShapes \cup OtherWords
    \cup { <<"R", "o", "u", "n", "d">>,
           <<" ", "R", "o", "u", "n", "d", " ">>,
           <<"O", "V", "A", "L">>,
           <<"\t", "s", "q", "u", "a", "r", "e">> }

SpellingInputs == UNION {Spellings(w) : w \in SupportedShapes \cup OtherWords}

----------------------------------------------------------------------------
(* One call of classify_age_group. *)

InitClassify ==
    /\ heap = ModuleHeap
    /\ held = <<>>
    /\ call \in [face_shape : {<<>>}, age : AgeInputs]
    /\ outcome = NoOutcome
    /\ pc = "ready"
    /\ edits = 0
    /\ text = <<>>

Classify ==
    /\ pc = "ready"
    /\ outcome' = classify_age_group(call.age)
    /\ pc' = "done"
    /\ UNCHANGED <<heap, held, call, edits, text>>

SpecClassify == InitClassify /\ [][Classify]_vars

----------------------------------------------------------------------------
(* One call of recommend_glasses. *)

Recommend ==
    /\ pc = "ready"
    /\ LET r == recommend_glasses(call.face_shape, call.age, heap) IN
         /\ outcome' = r.outcome
         /\ heap' = r.heap
    /\ pc' = "done"
    /\ UNCHANGED <<held, call, edits, text>>

\* Every age, the face shapes as the tests write them.
InitRecommend ==
    /\ heap = ModuleHeap
    /\ held = <<>>
    /\ call \in [face_shape : ShapeInputs, age : AgeInputs]
    /\ outcome = NoOutcome
    /\ pc = "ready"
    /\ edits = 0
    /\ text = <<>>

SpecRecommend == InitRecommend /\ [][Recommend]_vars

\* Every spelling of the face shapes, the ages at the edges of the ranges.
InitSpelling ==
    /\ heap = ModuleHeap
    /\ held = <<>>
    /\ call \in [face_shape : SpellingInputs, age : EdgeAges]
    /\ outcome = NoOutcome
    /\ pc = "ready"
    /\ edits = 0
    /\ text = <<>>

SpecSpelling == InitSpelling /\ [][Recommend]_vars

----------------------------------------------------------------------------
(* A caller that calls recommend_glasses again and again and keeps some of *)
(* the results.  A kept entry records the call, the object returned (or    *)
(* the error raised) and what its fields read when it was returned.        *)

CallInputs ==
    [face_shape : { <<"s", "q", "u", "a", "r", "e">>,
                    <<"h", "e", "a", "r", "t">>,
                    <<"h", "e", "x", "a", "g", "o", "n">> },
     age : EdgeAges]

Init ==
    /\ heap = ModuleHeap
    /\ held = <<>>
    /\ call \in CallInputs
    /\ outcome = NoOutcome
    /\ pc = "ready"
    /\ edits = 0
    /\ text = <<>>

\* The GlassRecommendation objects the caller can still reach.
HeldRecs == UNION {held[i].outcome.returned : i \in 1..Len(held)}

\* The lists still referred to: those of the catalogs and of the kept
\* results.  Python frees the others.
Collect(h) ==
    [r \in CatalogRefs \cup UNION {RecRefs(rec) : rec \in HeldRecs} |-> h[r]]

\* The caller stores the result of the call in a variable of its own.
Keep ==
    /\ pc = "done"
    /\ Len(held) < MaxHeld
    /\ held' = Append(held, [call |-> call, outcome |-> outcome,
                             seen |-> Values(outcome, heap)])
    /\ pc' = "kept"
    /\ UNCHANGED <<heap, call, outcome, edits, text>>

\* The caller starts another call; a result it did not keep is gone.
Call(c) ==
    /\ pc \in {"done", "kept"}
    /\ call' = c
    /\ outcome' = NoOutcome
    /\ heap' = Collect(heap)
    /\ pc' = "ready"
    /\ UNCHANGED <<held, edits, text>>

Next ==
    \/ Recommend
    \/ Keep
    \/ \E c \in CallInputs : Call(c)

Spec == Init /\ [][Next]_vars

----------------------------------------------------------------------------
(* A caller that also changes the lists of the results it was given:       *)
(* GlassRecommendation is a plain dataclass, its list fields can be        *)
(* appended to and popped from.                                            *)

EditFrames == {"round"}

\* The results the caller has at hand: the kept ones and the current one.
AtHand == HeldRecs \cup outcome.returned

\* rec.<field>.append(x)
EditAppend(rec, f, x) ==
    /\ pc \in {"done", "kept"}
    /\ edits < MaxEdits
    /\ rec \in AtHand
    /\ heap' = [heap EXCEPT ![rec[f]] = Append(@, x)]
    /\ edits' = edits + 1
    /\ UNCHANGED <<held, call, outcome, pc, text>>

\* rec.<field>.pop()
EditPop(rec, f) ==
    /\ pc \in {"done", "kept"}
    /\ edits < MaxEdits
    /\ rec \in AtHand
    /\ heap[rec[f]] # <<>>
    /\ heap' = [heap EXCEPT ![rec[f]] = SubSeq(@, 1, Len(@) - 1)]
    /\ edits' = edits + 1
    /\ UNCHANGED <<held, call, outcome, pc, text>>

CallerInputs ==
    [face_shape : { <<"s", "q", "u", "a", "r", "e">>,
                    <<"h", "e", "x", "a", "g", "o", "n">> },
     age : {0 - 1, 0, 18}]

InitCaller ==
    /\ heap = ModuleHeap
    /\ held = <<>>
    /\ call \in CallerInputs
    /\ outcome = NoOutcome
    /\ pc = "ready"
    /\ edits = 0
    /\ text = <<>>

NextCaller ==
    \/ Recommend
    \/ Keep
    \/ \E c \in CallerInputs : Call(c)
    \/ \E rec \in AtHand, f \in ListFields, x \in EditFrames : EditAppend(rec, f, x)
    \/ \E rec \in AtHand, f \in ListFields : EditPop(rec, f)

SpecCaller == InitCaller /\ [][NextCaller]_vars

----------------------------------------------------------------------------
(* summary() on a GlassRecommendation: one that recommend_glasses          *)
(* returned, or one built directly with the dataclass constructor, whose   *)
(* lists may be empty.                                                     *)

Items == {"rimless", "round"}

\* Every list of at most MaxItems items.
ListInputs == UNION {[1..k -> Items] : k \in 0..MaxItems}

ScalarInputs ==
    { [face_shape |-> <<"o", "v", "a", "l">>, age |-> 8, age_group |-> "child",
       fit_notes |-> "Small fit."],
      [face_shape |-> <<"s", "q", "u", "a", "r", "e">>, age |-> 70, age_group |-> "senior",
       fit_notes |-> "Wide fit."] }

NewList(i) == [tbl |-> "new", id |-> i]

\* GlassRecommendation(face_shape, age, age_group, recommended_frames,
\* preferred_features, frames_to_avoid, fit_notes, lens_suggestions)
InitConstructed ==
    /\ \E sc \in ScalarInputs, fr \in ListInputs, pf \in ListInputs,
          av \in ListInputs, ls \in ListInputs :
          /\ heap = Alloc(Alloc(Alloc(Alloc(ModuleHeap, NewList(1), fr),
                                      NewList(2), pf), NewList(3), av), NewList(4), ls)
          /\ outcome = Return([face_shape |-> sc.face_shape,
                               age |-> sc.age,
                               age_group |-> sc.age_group,
                               recommended_frames |-> NewList(1),
                               preferred_features |-> NewList(2),
                               frames_to_avoid |-> NewList(3),
                               fit_notes |-> sc.fit_notes,
                               lens_suggestions |-> NewList(4)])
    /\ held = <<>>
    /\ call = [face_shape |-> <<>>, age |-> 0]
    /\ pc = "done"
    /\ edits = 0
    /\ text = <<>>

InitReturned ==
    /\ heap = ModuleHeap
    /\ held = <<>>
    /\ call \in [face_shape : ShapeInputs, age : EdgeAges]
    /\ outcome = NoOutcome
    /\ pc = "ready"
    /\ edits = 0
    /\ text = <<>>

InitSummary == InitConstructed \/ InitReturned

\* print(recommendation.summary())
Summarize ==
    /\ pc = "done"
    /\ outcome.returned # {}
    /\ text' = summary(TheOne(outcome.returned), heap)
    /\ pc' = "printed"
    /\ UNCHANGED <<heap, held, call, outcome, edits>>

NextSummary == Recommend \/ Summarize

SpecSummary == InitSummary /\ [][NextSummary]_vars

----------------------------------------------------------------------------
(* What the claims speak of, stated apart from the code's own operators.   *)

\* The seven supported labels, in the order the module lists them.
ClaimShapeList ==
    << <<"o", "v", "a", "l">>, <<"r", "o", "u", "n", "d">>,
       <<"s", "q", "u", "a", "r", "e">>, <<"h", "e", "a", "r", "t">>,
       <<"o", "b", "l", "o", "n", "g">>, <<"d", "i", "a", "m", "o", "n", "d">>,
       <<"t", "r", "i", "a", "n", "g", "l", "e">> >>

ClaimShapes == {ClaimShapeList[i] : i \in 1..Len(ClaimShapeList)}

ClaimLabels == {"child", "teen", "young_adult", "adult", "senior"}

\* The label whose inclusive range holds the age, for an age in [0,150].
ClaimLabel(age) ==
    CASE 0 <= age /\ age <= 12   -> "child"
      [] 13 <= age /\ age <= 17  -> "teen"
      [] 18 <= age /\ age <= 35  -> "young_adult"
      [] 36 <= age /\ age <= 59  -> "adult"
      [] 60 <= age /\ age <= 150 -> "senior"

ValidAge(age) == 0 <= age /\ age <= 150

\* s is w written in any letter case, with whitespace before and after.
IsSpelling(s, w) ==
    \E l \in 0..Len(s) :
        /\ l + Len(w) <= Len(s)
        /\ \A i \in 1..l : s[i] \in Whitespace
        /\ \A i \in 1..Len(w) : s[l + i] = w[i] \/ s[l + i] = upper_char(w[i])
        /\ \A i \in (l + Len(w) + 1)..Len(s) : s[i] \in Whitespace

\* The call's face shape is a spelling of a supported label.
SupportedCall == \E w \in ClaimShapes : IsSpelling(call.face_shape, w)

IsInvalidAge(e) ==
    /\ e.type = "ValueError"
    /\ e.format \in {AgeNegativeFormat, AgeUnclassifiedFormat}

IsUnknownFaceShape(e) ==
    /\ e.type = "ValueError"
    /\ e.format = UnknownShapeFormat

\* list with every entry that is in avoid left out, the rest in order.
RECURSIVE Without(_, _)
Without(list, avoid) ==
    IF list = <<>>
    THEN <<>>
    ELSE (IF InList(Head(list), avoid) THEN <<>> ELSE <<Head(list)>>)
         \o Without(Tail(list), avoid)

----------------------------------------------------------------------------
\* C1: for every integer age in [0,150] classify_age_group returns exactly
\* one of the five labels, the one whose inclusive range holds the age
\* (child 0-12, teen 13-17, young_adult 18-35, adult 36-59, senior 60-150);
\* the five configured ranges cover [0,150] with no gap and no overlap.
C1_ClassifyPartition ==
    /\ (pc = "done" /\ ValidAge(call.age)) =>
          /\ outcome.raised = {}
          /\ Cardinality(outcome.returned) = 1
          /\ outcome.returned \subseteq ClaimLabels
          /\ outcome.returned = {ClaimLabel(call.age)}
    /\ \A a \in 0..150 :
          Cardinality({i \in 1..Len(AGE_GROUPS) :
              AGE_GROUPS[i].value.lo <= a /\ a <= AGE_GROUPS[i].value.hi}) = 1

C1_Witness ==
    /\ pc = "done"
    /\ call.age = 60
    /\ outcome.returned = {"senior"}

C10_SeniorHasNoUpperLimit ==
    (pc = "done" /\ call.age >= 60) => outcome = Return("senior")

----------------------------------------------------------------------------
\* C2: for every supported face shape and every age in [0,150]
\* recommend_glasses succeeds and returns a Recommendation whose
\* recommended_frames is non-empty, whose face_shape is the normalized
\* input, whose age is the input age and whose age_group is
\* classify_age_group(age).
C2_RecommendSucceeds ==
    \A w \in ClaimShapes :
        (pc = "done" /\ ValidAge(call.age) /\ IsSpelling(call.face_shape, w)) =>
            /\ outcome.raised = {}
            /\ Cardinality(outcome.returned) = 1
            /\ \A rec \in outcome.returned :
                  /\ heap[rec.recommended_frames] # <<>>
                  /\ rec.face_shape = w
                  /\ rec.age = call.age
                  /\ classify_age_group(call.age) = Return(rec.age_group)

C2_Witness ==
    /\ pc = "done"
    /\ call.face_shape = <<" ", "R", "o", "u", "n", "d", " ">>
    /\ call.age = 150
    /\ \E rec \in outcome.returned :
          /\ rec.face_shape = <<"r", "o", "u", "n", "d">>
          /\ rec.age_group = "senior"
          /\ Len(heap[rec.recommended_frames]) = 5

\* C3: for every supported face shape and valid age recommended_frames is
\* the stable filter of the face shape's base frame list by the age group's
\* avoid list: exactly the base frames not in frames_to_avoid, in their
\* original order (for square, 'rimless' is absent at age 10 and present at
\* age 25).
C3_StableFilter ==
    \A w \in ClaimShapes :
        (pc = "done" /\ ValidAge(call.age) /\ IsSpelling(call.face_shape, w)) =>
            \A rec \in outcome.returned :
                LET base == Get(_FACE_SHAPE_FRAMES, w)
                    avoid == heap[rec.frames_to_avoid]
                    got == heap[rec.recommended_frames]
                IN  /\ avoid = Get(_AGE_GROUP_MODIFIERS, ClaimLabel(call.age)).avoid
                    /\ got = Without(base, avoid)
                    /\ \A i \in 1..Len(got) : ~InList(got[i], avoid)
                    /\ \A i \in 1..Len(base) :
                          ~InList(base[i], avoid) => InList(base[i], got)
                    /\ (w = <<"s", "q", "u", "a", "r", "e">> /\ call.age = 10)
                          => ~InList("rimless", got)
                    /\ (w = <<"s", "q", "u", "a", "r", "e">> /\ call.age = 25)
                          => InList("rimless", got)

C3_Witness ==
    /\ pc = "done"
    /\ call.face_shape = <<"s", "q", "u", "a", "r", "e">>
    /\ call.age = 10
    /\ \E rec \in outcome.returned :
          /\ InList("rimless", heap[rec.frames_to_avoid])
          /\ heap[rec.recommended_frames] = <<"round", "oval", "cat-eye", "aviator">>

\* C6: for every supported face shape and every age classify_age_group
\* rejects, recommend_glasses fails with the very error classify_age_group
\* raises and produces no Recommendation; every call ends with either one
\* Recommendation or one error, never both and never neither.
C6_InvalidAgePropagates ==
    /\ (pc = "done" /\ SupportedCall /\ classify_age_group(call.age).raised # {}) =>
          /\ outcome.returned = {}
          /\ outcome.raised = classify_age_group(call.age).raised
          /\ \A e \in outcome.raised : IsInvalidAge(e) /\ e.args = <<call.age>>
          /\ heap = ModuleHeap
    /\ pc = "done" =>
          Cardinality(outcome.returned) + Cardinality(outcome.raised) = 1

C6_Witness ==
    /\ pc = "done"
    /\ call.face_shape = <<"o", "v", "a", "l">>
    /\ call.age = 151
    /\ outcome = Raise(ValueError(AgeUnclassifiedFormat, <<151>>))

----------------------------------------------------------------------------
\* C5: for every input string and every integer age, valid or not,
\* recommend_glasses fails with an UnknownFaceShape error when the trimmed,
\* lowercased face shape is not one of the 7 supported labels; the error
\* carries the normalized rejected value and the list of supported shapes,
\* and the shape is checked before the age.
C5_UnknownFaceShape ==
    (pc = "done" /\ ~SupportedCall) =>
        /\ outcome.returned = {}
        /\ Cardinality(outcome.raised) = 1
        /\ \A e \in outcome.raised :
              /\ IsUnknownFaceShape(e)
              /\ e.args[2] = ClaimShapeList
              /\ \A w \in OtherWords :
                    IsSpelling(call.face_shape, w) => e.args[1] = w

C5_Witness ==
    /\ pc = "done"
    /\ call.face_shape = <<"H", "e", "x", "a", "g", "o", "n", " ">>
    /\ call.age < 0
    /\ outcome = Raise(ValueError(UnknownShapeFormat,
                                  << <<"h", "e", "x", "a", "g", "o", "n">>, ClaimShapeList >>))

\* C7: for every supported label, every spelling of it that differs only in
\* letter case and in leading or trailing whitespace, and every age,
\* recommend_glasses gives a result identical in every field to the result
\* for the canonical label, and the stored face_shape is the canonical form.
C7_SpellingInsensitive ==
    \A w \in ClaimShapes :
        (pc = "done" /\ IsSpelling(call.face_shape, w)) =>
            LET canonical == recommend_glasses(w, call.age, ModuleHeap) IN
            /\ Values(outcome, heap) = Values(canonical.outcome, canonical.heap)
            /\ \A rec \in outcome.returned : rec.face_shape = w

C7_Witness ==
    /\ pc = "done"
    /\ call.face_shape = <<"\t", "t", "R", "i", "A", "n", "G", "l", "E", " ">>
    /\ call.age = 36
    /\ \E rec \in outcome.returned :
          /\ rec.face_shape = <<"t", "r", "i", "a", "n", "g", "l", "e">>
          /\ rec.age_group = "adult"

----------------------------------------------------------------------------
\* C8: in any sequence of calls to recommend_glasses, two calls with the
\* same face shape and age yield Recommendation values identical field by
\* field, or the same error, whatever calls ran between them.
C8_Idempotent ==
    pc = "done" =>
        \A i \in 1..Len(held) :
            held[i].call = call => held[i].seen = Values(outcome, heap)

C8_Witness ==
    /\ pc = "done"
    /\ Len(held) >= 1
    /\ held[1].call = call
    /\ call.face_shape = <<"s", "q", "u", "a", "r", "e">>
    /\ call.age = 18
    /\ \E rec \in outcome.returned : InList("rimless", heap[rec.recommended_frames])

\* C9: the frame, age-modifier and lens catalogs are never mutated after
\* initialization: whatever calls are made and whatever the caller does to
\* the list fields of the Recommendations it was given, each catalog list
\* still holds its initial contents.
C9_CatalogsNeverMutated ==
    \A r \in CatalogRefs : heap[r] = ModuleHeap[r]

----------------------------------------------------------------------------
(* The text of summary(), read back line by line. *)

\* The pieces of t before its first "\n".
RECURSIVE FirstLine(_)
FirstLine(t) ==
    IF t = <<>> \/ Head(t) = Lit("\n") THEN <<>> ELSE <<Head(t)>> \o FirstLine(Tail(t))

\* t cut at every "\n".
RECURSIVE SplitLines(_)
SplitLines(t) ==
    LET first == FirstLine(t) IN
    IF Len(first) = Len(t)
    THEN <<first>>
    ELSE <<first>> \o SplitLines(SubSeq(t, Len(first) + 2, Len(t)))

\* The line is label, then the items of list with ", " between them.
IsListLine(line, label, list) ==
    /\ Len(line) = (IF list = <<>> THEN 1 ELSE 2 * Len(list))
    /\ line[1] = Lit(label)
    /\ \A i \in 1..Len(list) : line[2 * i] = Lit(list[i])
    /\ \A i \in 1..(Len(list) - 1) : line[2 * i + 1] = Lit(", ")

HasPiece(t, piece) == \E i \in 1..Len(t) : t[i] = piece

\* C11: for every Recommendation summary() gives the lines in one fixed
\* order: face shape, age with age group, comma-joined frame list,
\* comma-joined feature list, then an 'Avoid' line if and only if
\* frames_to_avoid is non-empty, then a 'Lenses' line if and only if
\* lens_suggestions is non-empty, then the fit-notes line last; the text
\* holds the face shape, the age-group label and fit_notes verbatim.
C11_SummaryLines ==
    pc = "printed" =>
        \A rec \in outcome.returned :
            LET lines == SplitLines(text)
                avoid == heap[rec.frames_to_avoid]
                lens == heap[rec.lens_suggestions]
                hasAvoid == avoid # <<>>
                hasLens == lens # <<>>
                n == 5 + (IF hasAvoid THEN 1 ELSE 0) + (IF hasLens THEN 1 ELSE 0)
                labels == [i \in 1..Len(lines) |-> lines[i][1]]
            IN  /\ Len(lines) = n
                /\ lines[1] = <<Lit("Face shape  : "), Chars(rec.face_shape)>>
                /\ lines[2] = <<Lit("Age         : "), Num(rec.age), Lit(" ("),
                                Lit(rec.age_group), Lit(")")>>
                /\ IsListLine(lines[3], "Frames      : ", heap[rec.recommended_frames])
                /\ IsListLine(lines[4], "Features    : ", heap[rec.preferred_features])
                /\ hasAvoid <=> InList(Lit("Avoid       : "), labels)
                /\ hasAvoid => IsListLine(lines[5], "Avoid       : ", avoid)
                /\ hasLens <=> InList(Lit("Lenses      : "), labels)
                /\ hasLens => IsListLine(lines[n - 1], "Lenses      : ", lens)
                /\ lines[n] = <<Lit("Fit notes   : "), Lit(rec.fit_notes)>>
                /\ HasPiece(text, Chars(rec.face_shape))
                /\ HasPiece(text, Lit(rec.age_group))
                /\ HasPiece(text, Lit(rec.fit_notes))

C11_Witness ==
    /\ pc = "printed"
    /\ \E rec \in outcome.returned :
          /\ heap[rec.frames_to_avoid] = <<"rimless", "round">>
          /\ heap[rec.lens_suggestions] = <<"round">>
          /\ heap[rec.recommended_frames] = <<>>
    /\ Len(SplitLines(text)) = 7

=============================================================================
